---- MODULE Spec2Model ----
(***************************************************************************)
(* Life Calendar Wallpaper Generator (generate.py).                        *)
(*                                                                         *)
(* One run of main() is modelled as a state machine whose program counter  *)
(* walks through the statements of main in source order.  The inputs of a  *)
(* run are the CONFIG block, the clock (date.today()), the state of the    *)
(* file system at the output path and the outcome of each OS call.         *)
(***************************************************************************)
EXTENDS Integers, Sequences, FiniteSets, TLC

VARIABLES
    \* CONFIG block (fixed during a run)
    BIRTHDAY, LIFESPAN_YEARS, RESOLUTION, CELL_SIZE, CELL_GAP, SET_WALLPAPER,
    \* environment
    today,          \* what date.today() returns
    fsParent,       \* what is at os.path.dirname(OUTPUT_PATH)
    fsEntry,        \* what is at OUTPUT_PATH
    \* locals of main
    total_weeks, weeks_lived, age, this_year_birthday, last_birthday,
    week_of_year, weeks_past, current_week,
    grid_w, grid_h, ox, oy,
    cells,          \* fill colour of every rectangle drawn by draw_grid
    pct, remaining,
    \* observable behaviour
    calls,          \* the osascript invocations, in order
    out,            \* the lines printed, in order
    pc,             \* position in main
    err             \* the exception that escaped main, if any

config == <<BIRTHDAY, LIFESPAN_YEARS, RESOLUTION, CELL_SIZE, CELL_GAP, SET_WALLPAPER>>
dateLocals == <<total_weeks, weeks_lived, age, this_year_birthday, last_birthday,
                week_of_year, weeks_past, current_week>>
geomLocals == <<grid_w, grid_h, ox, oy>>
statLocals == <<pct, remaining>>
fs == <<fsParent, fsEntry>>
vars == <<config, today, fs, dateLocals, geomLocals, cells, statLocals, calls, out, pc, err>>

----------------------------------------------------------------------------
(* datetime.date: the proleptic Gregorian calendar *)

MINYEAR == 1
MAXYEAR == 9999

Date(y, m, d) == [year |-> y, month |-> m, day |-> d]

IsLeap(y) == (y % 4 = 0) /\ ((y % 100 # 0) \/ (y % 400 = 0))

DaysInMonth(y, m) ==
    IF m = 2 THEN (IF IsLeap(y) THEN 29 ELSE 28)
    ELSE IF m \in {4, 6, 9, 11} THEN 30 ELSE 31

RECURSIVE DaysBeforeMonth(_, _)
DaysBeforeMonth(y, m) ==
    IF m = 1 THEN 0 ELSE DaysBeforeMonth(y, m - 1) + DaysInMonth(y, m - 1)

DaysBeforeYear(y) ==
    (y - 1) * 365 + ((y - 1) \div 4) - ((y - 1) \div 100) + ((y - 1) \div 400)

\* date.toordinal(): 0001-01-01 is day 1
Ordinal(d) == DaysBeforeYear(d.year) + DaysBeforeMonth(d.year, d.month) + d.day

\* (a - b).days
DaysBetween(a, b) == Ordinal(a) - Ordinal(b)

\* a < b on dates
DateLess(a, b) == Ordinal(a) < Ordinal(b)

ValidDate(y, m, d) ==
    /\ y \in MINYEAR..MAXYEAR
    /\ m \in 1..12
    /\ d \in 1..DaysInMonth(y, m)

\* BIRTHDAY.replace(year=y) and BIRTHDAY.replace(year=y, day=d): the set holding
\* the new date, or the empty set when the fields do not name a day of the
\* calendar and replace raises ValueError
Replace(b, y, d) == IF ValidDate(y, b.month, d) THEN {Date(y, b.month, d)} ELSE {}

\* faulty variant: the ValueError of replace is not handled
BirthdayInYear_NoFallback(b, y) == Replace(b, y, b.day)

\* try: BIRTHDAY.replace(year=y)  except ValueError: BIRTHDAY.replace(year=y, day=28)
\* (a ValueError of the second replace is not caught: the empty set)
BirthdayInYear(b, y) ==
    IF Replace(b, y, b.day) # {} THEN Replace(b, y, b.day) ELSE Replace(b, y, 28)

\* the day after d: the clock one day later
NextDay(d) ==
    IF d.day < DaysInMonth(d.year, d.month) THEN Date(d.year, d.month, d.day + 1)
    ELSE IF d.month < 12 THEN Date(d.year, d.month + 1, 1)
    ELSE Date(d.year + 1, 1, 1)

----------------------------------------------------------------------------
(* CONFIG block and module constants *)

PAST_COLOR == "#DEDEDE"
FUTURE_COLOR == "#252525"
CURRENT_COLOR == "#FF6B35"

ROWS == 52
COLS == LIFESPAN_YEARS

NoDate == Date(0, 0, 0)     \* a date local of main that is not assigned yet

----------------------------------------------------------------------------
(* main: the date calculator *)

\* weeks_lived = (today - BIRTHDAY).days // 7
WeeksLived(b, t) == DaysBetween(t, b) \div 7

\* this_year_birthday, as a set (empty: the ValueError escaped)
ThisYearBirthday(b, t) == BirthdayInYear(b, t.year)

\* if today < this_year_birthday
BeforeBirthday(b, t) == \E a \in ThisYearBirthday(b, t) : DateLess(t, a)

\* faulty variant: the anniversary of the previous year is never built
LastBirthday_ThisYearOnly(b, t) == ThisYearBirthday(b, t)

\* last_birthday, as a set (empty: the ValueError escaped)
LastBirthday(b, t) ==
    IF BeforeBirthday(b, t) THEN BirthdayInYear(b, t.year - 1) ELSE ThisYearBirthday(b, t)

\* faulty variant: the age is not reduced before this year's birthday
Age_NoDecrement(b, t) == t.year - b.year

\* age = today.year - BIRTHDAY.year, minus one before this year's birthday
Age(b, t) == IF BeforeBirthday(b, t) THEN t.year - b.year - 1 ELSE t.year - b.year

\* faulty variant: started weeks are counted, not completed ones
WeekOfYear_Started(t, lb) == (DaysBetween(t, lb) + 6) \div 7

\* week_of_year = (today - last_birthday).days // 7
WeekOfYear(t, lb) == DaysBetween(t, lb) \div 7

\* weeks_past = age * ROWS + week_of_year
WeeksPast(a, w) == a * ROWS + w

----------------------------------------------------------------------------
(* main: the grid geometry *)

top_margin == 120
label_margin_top == 50
bottom_margin == 140

Step(size, gap) == size + gap
GridW(cols, size, gap) == cols * Step(size, gap) - gap
GridH(size, gap) == ROWS * Step(size, gap) - gap
UsableH(canvas_h) == canvas_h - top_margin - label_margin_top - bottom_margin
OriginX(canvas_w, gw) == (canvas_w - gw) \div 2
\* faulty variant: the label margin is left out of the vertical origin
OriginY_NoLabelMargin(canvas_h, gh) == top_margin + ((UsableH(canvas_h) - gh) \div 2)

OriginY(canvas_h, gh) == top_margin + label_margin_top + ((UsableH(canvas_h) - gh) \div 2)

----------------------------------------------------------------------------
(* draw_grid *)

Cells(cols) == (0..(cols - 1)) \X (0..(ROWS - 1))     \* <<col, row>>

\* faulty variant: the current week counts as past
CellColor_Inclusive(idx, wp, cw) ==
    IF idx <= wp THEN PAST_COLOR
    ELSE IF idx = cw THEN CURRENT_COLOR
    ELSE FUTURE_COLOR

CellColor(idx, wp, cw) ==
    IF idx < wp THEN PAST_COLOR
    ELSE IF idx = cw THEN CURRENT_COLOR
    ELSE FUTURE_COLOR

\* the fill colour of the rectangle drawn for each <<col, row>>
DrawGridColors(cols, wp, cw) ==
    [c \in Cells(cols) |-> CellColor(c[1] * ROWS + c[2], wp, cw)]

----------------------------------------------------------------------------
(* main: the stats line *)

Remaining(total, lived) == total - lived

Abs(x) == IF x < 0 THEN -x ELSE x

\* faulty variant: the percentage is cut after the first decimal instead of rounded
PctTenths_Truncated(lived, total) == {(1000 * lived) \div total}

\* f"{pct:.1f}" of pct = (weeks_lived / total_weeks) * 100, in tenths of a percent:
\* the nearest tenth; when the quotient lies exactly halfway between two tenths
\* the digit printed depends on the binary rounding of the two float
\* operations, so both neighbours are possible outcomes
PctTenths(lived, total) ==
    LET lo == (1000 * lived) \div total
    IN  {t \in {lo, lo + 1} : 2 * Abs(t * total - 1000 * lived) <= total}

----------------------------------------------------------------------------
(* The file system at OUTPUT_PATH and the bitmap written there *)

Bitmap(complete, size, colors, stats) ==
    [complete |-> complete, size |-> size, cells |-> colors, stats |-> stats]

\* the bytes a file at OUTPUT_PATH holds before the run: not this run's image
PreviousBitmap == Bitmap(TRUE, <<0, 0>>, <<>>, <<>>)

\* what an interrupted write leaves behind
PartialBitmap == Bitmap(FALSE, <<0, 0>>, <<>>, <<>>)

NoEntry == [kind |-> "none", ino |-> 0, data |-> PartialBitmap]
OldFile == [kind |-> "file", ino |-> 1, data |-> PreviousBitmap]
Directory == [kind |-> "dir", ino |-> 1, data |-> PartialBitmap]
FreshIno == OldFile.ino + 1     \* the inode of a file created during the run

\* the surface after line 160: canvas size, the grid and the stats line
Rendered == Bitmap(TRUE, RESOLUTION, cells, <<weeks_lived, remaining, pct, LIFESPAN_YEARS>>)

\* subprocess.run: exit status 0, a non-zero exit status, or the command could
\* not be launched and subprocess.run raised OSError
SubprocessOutcomes == {"zero", "nonzero", "OSError"}

----------------------------------------------------------------------------
(* Inputs of a run *)

YearSpan == 5           \* the clock sweeps the years 2003 .. 2003 + YearSpan
SweepLifespan == 2      \* LIFESPAN_YEARS while the clock is swept
MaxLifespan == 2        \* the geometry sweep: LIFESPAN_YEARS in 0 .. MaxLifespan
MaxCellSize == 2        \*   CELL_SIZE in 1 .. MaxCellSize
MaxCellGap == 2         \*   CELL_GAP in 0 .. MaxCellGap
MaxCanvas == 3          \*   canvas width and height in 1 .. MaxCanvas

DefaultBirthday == Date(2005, 4, 6)
DefaultResolution == <<2560, 1664>>

Birthdays == {DefaultBirthday, Date(2004, 2, 29), Date(2003, 12, 31)}

SweepYears == 2003..(2003 + YearSpan)

Todays ==
    {Date(y, m, d) : <<y, m, d>> \in {x \in SweepYears \X (1..12) \X (1..31) :
                                        ValidDate(x[1], x[2], x[3])}}

\* 2025-04-06: the 20th anniversary; 2025-03-12: 7280 days = 1040 weeks lived;
\* 2005-07-06: 13 weeks lived
ScenarioDays == {Date(2025, 4, 6), Date(2025, 3, 12), Date(2005, 7, 6)}

LocalsInit ==
    /\ total_weeks = 0 /\ weeks_lived = 0 /\ age = 0
    /\ this_year_birthday = NoDate /\ last_birthday = NoDate
    /\ week_of_year = 0 /\ weeks_past = 0 /\ current_week = 0
    /\ grid_w = 0 /\ grid_h = 0 /\ ox = 0 /\ oy = 0
    /\ cells = <<>>
    /\ pct = 0 /\ remaining = 0
    /\ calls = <<>> /\ out = <<>>
    /\ pc = "makedirs" /\ err = "none"

\* the CONFIG block as committed, the clock swept over several years around
\* each birthday (before the birth included)
InitClock ==
    /\ BIRTHDAY \in Birthdays
    /\ today \in Todays
    /\ LIFESPAN_YEARS = SweepLifespan
    /\ RESOLUTION = DefaultResolution /\ CELL_SIZE = 20 /\ CELL_GAP = 3
    /\ SET_WALLPAPER = TRUE
    /\ fsParent = "dir" /\ fsEntry = OldFile

\* the layout parameters swept, grids that overflow the canvas included
InitLayout ==
    /\ BIRTHDAY = DefaultBirthday
    /\ today = Date(2025, 4, 6)
    /\ LIFESPAN_YEARS \in 0..MaxLifespan
    /\ RESOLUTION \in ((1..MaxCanvas) \cup {2560}) \X ((1..MaxCanvas) \cup {1664})
    /\ CELL_SIZE \in 1..MaxCellSize /\ CELL_GAP \in 0..MaxCellGap
    /\ SET_WALLPAPER = FALSE
    /\ fsParent = "dir" /\ fsEntry = NoEntry

\* the committed layout with the lifespans and days of the stats scenarios,
\* every state of the output path, background-setting on and off
InitSink ==
    /\ BIRTHDAY = DefaultBirthday
    /\ today \in ScenarioDays
    /\ LIFESPAN_YEARS \in {4, 90}
    /\ RESOLUTION = DefaultResolution /\ CELL_SIZE = 20 /\ CELL_GAP = 3
    /\ SET_WALLPAPER \in BOOLEAN
    /\ \E p \in {<<"absent", NoEntry>>, <<"file", NoEntry>>, <<"dir", NoEntry>>,
                  <<"dir", OldFile>>, <<"dir", Directory>>} :
          fsParent = p[1] /\ fsEntry = p[2]

Init == LocalsInit /\ (InitClock \/ InitLayout \/ InitSink)

----------------------------------------------------------------------------
(* main, statement by statement *)

Raise(e) == pc' = "raised" /\ err' = e

\* line 85: os.makedirs(os.path.dirname(OUTPUT_PATH), exist_ok=True)
MakeDirs ==
    /\ pc = "makedirs"
    /\ IF fsParent = "file"
       THEN Raise("FileExistsError") /\ UNCHANGED fsParent
       ELSE fsParent' = "dir" /\ pc' = "dates" /\ UNCHANGED err
    /\ UNCHANGED <<config, today, fsEntry, dateLocals, geomLocals, cells, statLocals,
                   calls, out>>

\* lines 95-110 for the clock reading t, when no ValueError escapes
AssignDates(t) ==
    /\ this_year_birthday' \in ThisYearBirthday(BIRTHDAY, t)
    /\ last_birthday' \in LastBirthday(BIRTHDAY, t)
    /\ age' = Age(BIRTHDAY, t)
    /\ week_of_year' = WeekOfYear(t, last_birthday')
    /\ weeks_past' = WeeksPast(age', week_of_year')
    /\ current_week' = weeks_past'

\* a ValueError escapes lines 96-105
DatesRaise(t) == ThisYearBirthday(BIRTHDAY, t) = {} \/ LastBirthday(BIRTHDAY, t) = {}

\* lines 87-110: today, total_weeks, weeks_lived and the grid-aligned week index
DateCalc ==
    /\ pc = "dates"
    /\ total_weeks' = ROWS * COLS
    /\ weeks_lived' = WeeksLived(BIRTHDAY, today)
    /\ IF DatesRaise(today)
       THEN /\ Raise("ValueError")
            /\ UNCHANGED <<age, this_year_birthday, last_birthday, week_of_year,
                           weeks_past, current_week>>
       ELSE /\ AssignDates(today)
            /\ pc' = "geometry" /\ UNCHANGED err
    /\ UNCHANGED <<config, today, fs, geomLocals, cells, statLocals, calls, out>>

\* lines 112-127: grid size and origin
Geometry ==
    /\ pc = "geometry"
    /\ grid_w' = GridW(COLS, CELL_SIZE, CELL_GAP)
    /\ grid_h' = GridH(CELL_SIZE, CELL_GAP)
    /\ ox' = OriginX(RESOLUTION[1], grid_w')
    /\ oy' = OriginY(RESOLUTION[2], grid_h')
    /\ pc' = "draw"
    /\ UNCHANGED <<config, today, fs, dateLocals, cells, statLocals, calls, out, err>>

\* lines 129-145: the canvas, draw_grid(draw, ox, oy, weeks_past, current_week),
\* the year labels and the title
DrawGrid ==
    /\ pc = "draw"
    /\ cells' = DrawGridColors(COLS, weeks_past, current_week)
    /\ pc' = "stats"
    /\ UNCHANGED <<config, today, fs, dateLocals, geomLocals, statLocals, calls, out, err>>

\* lines 147-160: the stats line
Stats ==
    /\ pc = "stats"
    /\ IF total_weeks = 0
       THEN Raise("ZeroDivisionError") /\ UNCHANGED statLocals
       ELSE /\ pct' \in PctTenths(weeks_lived, total_weeks)
            /\ remaining' = Remaining(total_weeks, weeks_lived)
            /\ pc' = "save" /\ UNCHANGED err
    /\ UNCHANGED <<config, today, fs, dateLocals, geomLocals, cells, calls, out>>

\* faulty variant: the file at the path is unlinked and a new one created
WriteFile_UnlinkFirst(entry, data) == [kind |-> "file", ino |-> FreshIno, data |-> data]

\* open(OUTPUT_PATH, "w+b") followed by a complete write: an existing file is
\* truncated and rewritten in place, a missing one is created
WriteFile(entry, data) ==
    IF entry.kind = "file"
    THEN [entry EXCEPT !.data = data]
    ELSE [kind |-> "file", ino |-> FreshIno, data |-> data]

\* lines 162-164: img.save(OUTPUT_PATH, "PNG"), then the two report lines.  The
\* save fails on a directory at the path; a write error (disk full, no
\* permission) leaves a truncated file, or none if save had created it
Save ==
    /\ pc = "save"
    /\ \/ /\ fsEntry.kind = "dir"
          /\ Raise("IsADirectoryError")
          /\ UNCHANGED <<fsEntry, out>>
       \/ /\ fsEntry.kind # "dir"
          /\ fsEntry' = WriteFile(fsEntry, Rendered)
          /\ out' = out \o <<"Saved", "Stats">>
          /\ pc' = "wallpaper" /\ UNCHANGED err
       \/ /\ fsEntry.kind # "dir"
          /\ fsEntry' \in {WriteFile(fsEntry, PartialBitmap)} \cup
                          (IF fsEntry.kind = "none" THEN {NoEntry} ELSE {})
          /\ Raise("OSError")
          /\ UNCHANGED out
    /\ UNCHANGED <<config, today, fsParent, dateLocals, geomLocals, cells, statLocals, calls>>

\* lines 166-172: the Finder command
SetWallpaper ==
    /\ pc = "wallpaper"
    /\ IF ~SET_WALLPAPER
       THEN pc' = "done" /\ UNCHANGED <<calls, out, err>>
       ELSE /\ calls' = Append(calls, "Finder")
            /\ \E result \in SubprocessOutcomes :
                 CASE result = "zero" ->
                        out' = Append(out, "Wallpaper set.") /\ pc' = "done" /\ UNCHANGED err
                   [] result = "nonzero" ->
                        pc' = "fallback" /\ UNCHANGED <<out, err>>
                   [] result = "OSError" ->
                        Raise("OSError") /\ UNCHANGED out
    /\ UNCHANGED <<config, today, fs, dateLocals, geomLocals, cells, statLocals>>

\* lines 173-184: the System Events command
Fallback ==
    /\ pc = "fallback"
    /\ calls' = Append(calls, "System Events")
    /\ \E result2 \in SubprocessOutcomes :
         CASE result2 = "zero" ->
                out' = Append(out, "Wallpaper set.") /\ pc' = "done" /\ UNCHANGED err
           [] result2 = "nonzero" ->
                /\ out' = out \o <<"Could not auto-set wallpaper", "File is at">>
                /\ pc' = "done" /\ UNCHANGED err
           [] result2 = "OSError" ->
                Raise("OSError") /\ UNCHANGED out
    /\ UNCHANGED <<config, today, fs, dateLocals, geomLocals, cells, statLocals>>

Next ==
    \/ MakeDirs
    \/ DateCalc
    \/ Geometry
    \/ DrawGrid
    \/ Stats
    \/ Save
    \/ SetWallpaper
    \/ Fallback

Spec == Init /\ [][Next]_vars

----------------------------------------------------------------------------
(* The same configuration run on consecutive days: the clock moves one day  *)
(* and lines 87-110 and draw_grid are evaluated again.                      *)

InitDays ==
    /\ BIRTHDAY \in Birthdays
    /\ today = BIRTHDAY
    /\ LIFESPAN_YEARS = YearSpan + 1
    /\ RESOLUTION = DefaultResolution /\ CELL_SIZE = 20 /\ CELL_GAP = 3
    /\ SET_WALLPAPER = TRUE
    /\ fsParent = "dir" /\ fsEntry = OldFile
    /\ total_weeks = ROWS * COLS
    /\ weeks_lived = WeeksLived(BIRTHDAY, today)
    /\ this_year_birthday \in ThisYearBirthday(BIRTHDAY, today)
    /\ last_birthday \in LastBirthday(BIRTHDAY, today)
    /\ age = Age(BIRTHDAY, today)
    /\ week_of_year = WeekOfYear(today, last_birthday)
    /\ weeks_past = WeeksPast(age, week_of_year)
    /\ current_week = weeks_past
    /\ grid_w = GridW(COLS, CELL_SIZE, CELL_GAP)
    /\ grid_h = GridH(CELL_SIZE, CELL_GAP)
    /\ ox = OriginX(RESOLUTION[1], grid_w)
    /\ oy = OriginY(RESOLUTION[2], grid_h)
    /\ cells = DrawGridColors(COLS, weeks_past, current_week)
    /\ pct = 0 /\ remaining = 0
    /\ calls = <<>> /\ out = <<>>
    /\ pc = "stats" /\ err = "none"

OneDayLater ==
    /\ NextDay(today).year \in SweepYears
    /\ ~DatesRaise(NextDay(today))
    /\ today' = NextDay(today)
    /\ weeks_lived' = WeeksLived(BIRTHDAY, today')
    /\ AssignDates(today')
    /\ cells' = DrawGridColors(COLS, weeks_past', current_week')
    /\ UNCHANGED <<config, fs, total_weeks, geomLocals, statLocals, calls, out, pc, err>>

NextDays == OneDayLater

SpecDays == InitDays /\ [][NextDays]_vars

----------------------------------------------------------------------------
(* Positions of main *)

\* an exception raised after lines 87-110 completed
RaisedLate == pc = "raised" /\ err \in {"ZeroDivisionError", "IsADirectoryError", "OSError"}

\* lines 87-110 completed
DatesDone == pc \in {"geometry", "draw", "stats", "save", "wallpaper", "fallback", "done"}
             \/ RaisedLate

\* lines 112-127 completed
GeometryDone == pc \in {"draw", "stats", "save", "wallpaper", "fallback", "done"} \/ RaisedLate

\* draw_grid returned
GridDone == pc \in {"stats", "save", "wallpaper", "fallback", "done"} \/ RaisedLate

\* lines 147-160 completed
StatsDone == pc \in {"save", "wallpaper", "fallback", "done"}
             \/ (pc = "raised" /\ err \in {"IsADirectoryError", "OSError"})

\* img.save returned and the report lines are printed
Saved == Len(out) >= 2

Born == ~DateLess(today, BIRTHDAY)      \* today >= birthdate

----------------------------------------------------------------------------
(* Calendar notions the claims are stated in *)

LeapDay(b) == b.month = 2 /\ b.day = 29

\* the birthday anniversary in year y: Feb 29 becomes Feb 28 outside leap years
Anniversary(b, y) ==
    IF LeapDay(b) /\ ~IsLeap(y) THEN Date(y, 2, 28) ELSE Date(y, b.month, b.day)

\* the years after the birth whose anniversary is not after t
AnniversariesPassed(b, t) ==
    {y \in (b.year + 1)..t.year : ~DateLess(t, Anniversary(b, y))}

CompletedYears(b, t) == Cardinality(AnniversariesPassed(b, t))

LatestBirthday(b, t) ==
    IF AnniversariesPassed(b, t) = {} THEN b
    ELSE Anniversary(b, CHOOSE y \in AnniversariesPassed(b, t) :
                            \A z \in AnniversariesPassed(b, t) : z <= y)

Count(f, v) == Cardinality({x \in DOMAIN f : f[x] = v})

----------------------------------------------------------------------------
(* Claims *)

\* C1: every cell with index idx = year*52 + week is drawn in the past colour
\* iff idx < grid_weeks_past, in the current colour iff idx = grid_weeks_past
\* and in the future colour iff idx > grid_weeks_past; exactly one cell is
\* current when 0 <= grid_weeks_past < rows*cols and none otherwise (all past
\* at or beyond rows*cols, all future below 0).
C1_CellStatus ==
    GridDone =>
        /\ DOMAIN cells = (0..(LIFESPAN_YEARS - 1)) \X (0..51)
        /\ \A c \in DOMAIN cells :
             LET idx == c[1] * 52 + c[2] IN
               /\ cells[c] = PAST_COLOR <=> idx < weeks_past
               /\ cells[c] = CURRENT_COLOR <=> idx = weeks_past
               /\ cells[c] = FUTURE_COLOR <=> idx > weeks_past
        /\ Count(cells, CURRENT_COLOR) =
             (IF 0 <= weeks_past /\ weeks_past < 52 * LIFESPAN_YEARS THEN 1 ELSE 0)
        /\ weeks_past >= 52 * LIFESPAN_YEARS => \A c \in DOMAIN cells : cells[c] = PAST_COLOR
        /\ weeks_past < 0 => \A c \in DOMAIN cells : cells[c] = FUTURE_COLOR

C1_Witness ==
    /\ GridDone
    /\ 0 < weeks_past /\ weeks_past < 52 * LIFESPAN_YEARS - 1
    /\ Count(cells, CURRENT_COLOR) = 1
    /\ Count(cells, PAST_COLOR) = weeks_past

\* C2: for today >= birthdate, weeks_past = completed years of age * 52 +
\* floor(days since the latest anniversary / 7); 2005-04-06 seen on 2025-04-06
\* gives age 20, week_of_year 0, weeks_past 1040.
C2_GridWeeks ==
    (DatesDone /\ Born) =>
        /\ weeks_past = CompletedYears(BIRTHDAY, today) * 52
                        + (DaysBetween(today, LatestBirthday(BIRTHDAY, today)) \div 7)
        /\ (BIRTHDAY = Date(2005, 4, 6) /\ today = Date(2025, 4, 6)) =>
              (age = 20 /\ week_of_year = 0 /\ weeks_past = 1040)

C2_Witness ==
    /\ DatesDone
    /\ BIRTHDAY = Date(2005, 4, 6) /\ today = Date(2025, 4, 6)
    /\ weeks_past = 1040

\* C3: for today >= birthdate the column of the current cell, weeks_past div 52,
\* is the completed years of age, and week_of_year stays within 0..51.
C3_ColumnIsAge ==
    (DatesDone /\ Born) =>
        /\ week_of_year \in 0..51
        /\ weeks_past \div 52 = CompletedYears(BIRTHDAY, today)

\* C4: for today >= birthdate, weeks_lived >= 0 and weeks_past >= 0.
C4_NonNegative ==
    (DatesDone /\ Born) =>
        /\ weeks_lived = DaysBetween(today, BIRTHDAY) \div 7
        /\ weeks_lived >= 0
        /\ weeks_past = age * 52 + week_of_year
        /\ weeks_past >= 0

C4_Witness ==
    /\ DatesDone /\ Born
    /\ LeapDay(BIRTHDAY)
    /\ DateLess(today, this_year_birthday)
    /\ weeks_past > 52

\* C5: with a Feb 29 birthdate no ValueError escapes the date calculator, and
\* the anniversary built for a year is Feb 29 in a leap year, Feb 28 otherwise.
C5_LeapDayBirthday ==
    LeapDay(BIRTHDAY) =>
        /\ err # "ValueError"
        /\ DatesDone =>
             LET y == IF DateLess(today, this_year_birthday)
                      THEN today.year - 1 ELSE today.year
             IN  /\ this_year_birthday =
                       Date(today.year, 2, IF IsLeap(today.year) THEN 29 ELSE 28)
                 /\ last_birthday = Date(y, 2, IF IsLeap(y) THEN 29 ELSE 28)

C5_Witness ==
    /\ DatesDone
    /\ LeapDay(BIRTHDAY)
    /\ this_year_birthday.day = 28
    /\ last_birthday.day = 28 /\ last_birthday.year = today.year - 1


\* C6: with background-setting enabled, once the image is saved the primary
\* command is invoked exactly once, the fallback exactly once iff the primary
\* failed, "Wallpaper set." is reported iff one of them succeeded, the manual
\* instructions iff both failed, and whatever the two OS calls do (a command
\* that cannot be launched included) the run finishes without an error
\* escaping; with background-setting disabled no command is invoked.
C6_BackgroundSetter ==
    /\ Saved => pc # "raised"
    /\ (Saved /\ pc = "done") =>
         IF SET_WALLPAPER
         THEN /\ calls \in {<<"Finder">>, <<"Finder", "System Events">>}
              /\ (Count(out, "Wallpaper set.") = 1) <=> (Count(out, "File is at") = 0)
              /\ Count(out, "Could not auto-set wallpaper") = Count(out, "File is at")
              /\ Count(out, "File is at") = 1 => Len(calls) = 2
         ELSE calls = <<>> /\ Count(out, "Wallpaper set.") = 0

\* C7 (as claimed): the save step finds the parent directory created, removes a
\* file already at the output path and then writes the image, so the file at
\* the path afterwards is a new one holding exactly the rendered image.
C7_RemoveThenWrite ==
    [][(pc = "save" /\ pc' = "wallpaper") =>
          /\ fsParent = "dir"
          /\ fsEntry'.kind = "file" /\ fsEntry'.data = Rendered'
          /\ fsEntry.kind = "file" => fsEntry'.ino # fsEntry.ino]_vars

\* C7 (amended): the save step finds the parent directory created and writes the
\* image at the output path; a file already there is not removed but
\* overwritten in place, and the path afterwards holds exactly the rendered
\* image.
C7_OverwriteInPlace ==
    [][(pc = "save" /\ pc' = "wallpaper") =>
          /\ fsParent = "dir"
          /\ fsEntry'.kind = "file" /\ fsEntry'.data = Rendered'
          /\ fsEntry.kind = "file" => fsEntry'.ino = fsEntry.ino]_vars

C7_Witness ==
    /\ Saved
    /\ fsEntry = [kind |-> "file", ino |-> OldFile.ino, data |-> Rendered]

\* C8: grid_w = cols*(cell_size+cell_gap) - cell_gap, grid_h =
\* 52*(cell_size+cell_gap) - cell_gap, the left and right margins differ by at
\* most 1, and so do the space between top_margin + label_margin and the grid
\* and the space between the grid and canvas_h - bottom_margin; also when the
\* grid overflows the canvas.
C8_Centered ==
    GeometryDone =>
        LET canvas_w == RESOLUTION[1]
            canvas_h == RESOLUTION[2]
            left == ox
            right == canvas_w - (ox + grid_w)
            above == oy - (120 + 50)
            below == (canvas_h - 140) - (oy + grid_h)
        IN  /\ grid_w = LIFESPAN_YEARS * (CELL_SIZE + CELL_GAP) - CELL_GAP
            /\ grid_h = 52 * (CELL_SIZE + CELL_GAP) - CELL_GAP
            /\ left - right \in {-1, 0, 1}
            /\ above - below \in {-1, 0, 1}

C8_Witness ==
    /\ GeometryDone
    /\ grid_w > RESOLUTION[1] /\ ox < 0
    /\ oy < 120 + 50
    /\ ox # RESOLUTION[1] - (ox + grid_w)

\* C9: the stats use weeks_lived = floor(days since birth / 7) and total_weeks =
\* 52 * lifespan: remaining = total_weeks - weeks_lived and pct is
\* 100 * weeks_lived / total_weeks to the nearest tenth; lifespan 90 with
\* weeks_lived 1040 gives 4680, 3640 and 22.2.
C9_Stats ==
    StatsDone =>
        /\ weeks_lived = DaysBetween(today, BIRTHDAY) \div 7
        /\ total_weeks = 52 * LIFESPAN_YEARS
        /\ remaining = total_weeks - weeks_lived
        /\ weeks_lived + remaining = total_weeks
        /\ 2 * Abs(pct * total_weeks - 1000 * weeks_lived) <= total_weeks
        /\ (LIFESPAN_YEARS = 90 /\ weeks_lived = 1040) =>
              (total_weeks = 4680 /\ remaining = 3640 /\ pct = 222)

C9_Witness ==
    /\ StatsDone
    /\ LIFESPAN_YEARS = 90 /\ weeks_lived = 1040
    /\ remaining = 3640 /\ pct = 222

\* C10: from one day to the next weeks_past never decreases and grows by at
\* most 1, so a cell drawn as past stays past and the current-week marker
\* neither moves back nor skips a cell.
C10_DayByDay ==
    [][(today' = NextDay(today)) =>
          /\ weeks_past' \in {weeks_past, weeks_past + 1}
          /\ current_week' \in {current_week, current_week + 1}
          /\ \A c \in DOMAIN cells :
               /\ cells[c] = PAST_COLOR => cells'[c] = PAST_COLOR
               /\ cells'[c] = CURRENT_COLOR =>
                    \/ cells[c] = CURRENT_COLOR
                    \/ /\ cells[c] = FUTURE_COLOR
                       /\ c[1] * 52 + c[2] = current_week + 1]_vars

C10_Witness ==
    /\ pc = "stats"
    /\ LeapDay(BIRTHDAY)
    /\ today = Date(2008, 2, 29)
    /\ weeks_past = 4 * 52

====
